---- MODULE Spec2Model ----
(***************************************************************************)
(* Model of AudioDatasets/multilingual_librispeech.py: the class           *)
(* MultilingualLibriSpeech over one corpus directory.                      *)
(*                                                                         *)
(* Text is modelled as sequences of one-character strings, so that the     *)
(* string operations of the code (split, strip, splitlines, readlines,     *)
(* slicing, lower, int, sorted) are computed, not assumed.                 *)
(***************************************************************************)
EXTENDS Integers, Sequences, FiniteSets, TLC

(***************************************************************************)
(* Bounds of the model.                                                    *)
(***************************************************************************)
\* the bulk transcript holds at most MaxBulk entries
MaxBulk == 2
\* a low-resource subset file holds at most MaxHandles identifiers
MaxHandles == 2
\* thread counts passed to extract_labels range over -1 .. MaxThreads
MaxThreads == 1

(***************************************************************************)
(* Characters and Python's string operations.                              *)
(***************************************************************************)
TAB == "\t"
NL == "\n"
SP == " "

Digits == <<"0", "1", "2", "3", "4", "5", "6", "7", "8", "9">>

IsDigit(c) == \E i \in 1..Len(Digits) : Digits[i] = c

DigitVal(c) == (CHOOSE i \in 1..Len(Digits) : Digits[i] = c) - 1

\* code points of the characters the model uses (Python compares str by code point)
Ord(c) ==
    CASE c = TAB -> 9
      [] c = NL -> 10
      [] c = SP -> 32
      [] c = "." -> 46
      [] IsDigit(c) -> 48 + DigitVal(c)
      [] c = "A" -> 65
      [] c = "B" -> 66
      [] c = "E" -> 69
      [] c = "N" -> 78
      [] c = "O" -> 79
      [] c = "S" -> 83
      [] c = "Y" -> 89
      [] c = "_" -> 95
      [] c = "a" -> 97
      [] c = "b" -> 98
      [] c = "e" -> 101
      [] c = "n" -> 110
      [] c = "o" -> 111
      [] c = "p" -> 112
      [] c = "s" -> 115
      [] c = "t" -> 116
      [] c = "u" -> 117
      [] c = "x" -> 120
      [] c = "y" -> 121

\* str.lower() on one character
LowerChar(c) ==
    CASE c = "A" -> "a"
      [] c = "B" -> "b"
      [] c = "E" -> "e"
      [] c = "N" -> "n"
      [] c = "O" -> "o"
      [] c = "S" -> "s"
      [] c = "Y" -> "y"
      [] OTHER -> c

\* str.lower()
Lower(s) == [i \in 1..Len(s) |-> LowerChar(s[i])]

IsSpace(c) == c \in {TAB, NL, SP}

\* s < t for Python str: lexicographic by code point, a proper prefix is smaller
RECURSIVE StrLess(_, _)
StrLess(s, t) ==
    IF t = <<>> THEN FALSE
    ELSE IF s = <<>> THEN TRUE
    ELSE IF Head(s) = Head(t) THEN StrLess(Tail(s), Tail(t))
    ELSE Ord(Head(s)) < Ord(Head(t))

\* str.split(sep) for a one-character separator: every occurrence splits
RECURSIVE Split(_, _)
Split(s, sep) ==
    IF \A i \in 1..Len(s) : s[i] # sep THEN <<s>>
    ELSE LET k == CHOOSE i \in 1..Len(s) :
                      s[i] = sep /\ \A j \in 1..(i - 1) : s[j] # sep
         IN  <<SubSeq(s, 1, k - 1)>> \o Split(SubSeq(s, k + 1, Len(s)), sep)

\* str.split(sep, 1): split at the first occurrence only
Split1(s, sep) ==
    IF \A i \in 1..Len(s) : s[i] # sep THEN <<s>>
    ELSE LET k == CHOOSE i \in 1..Len(s) :
                      s[i] = sep /\ \A j \in 1..(i - 1) : s[j] # sep
         IN  <<SubSeq(s, 1, k - 1), SubSeq(s, k + 1, Len(s))>>

\* file.readlines() and iteration over a text file: lines keep their terminator,
\* a last line without terminator is a line too
RECURSIVE ReadLines(_)
ReadLines(s) ==
    IF s = <<>> THEN <<>>
    ELSE IF \A i \in 1..Len(s) : s[i] # NL THEN <<s>>
    ELSE LET k == CHOOSE i \in 1..Len(s) :
                      s[i] = NL /\ \A j \in 1..(i - 1) : s[j] # NL
         IN  <<SubSeq(s, 1, k)>> \o ReadLines(SubSeq(s, k + 1, Len(s)))

\* str.splitlines(): lines without their terminator
SplitLines(s) ==
    LET ls == ReadLines(s)
    IN  [i \in 1..Len(ls) |->
            IF ls[i][Len(ls[i])] = NL THEN SubSeq(ls[i], 1, Len(ls[i]) - 1)
            ELSE ls[i]]

\* str.strip(): whitespace removed at both ends
RECURSIVE LStrip(_)
LStrip(s) == IF s # <<>> /\ IsSpace(Head(s)) THEN LStrip(Tail(s)) ELSE s

RECURSIVE RStrip(_)
RStrip(s) ==
    IF s # <<>> /\ IsSpace(s[Len(s)]) THEN RStrip(SubSeq(s, 1, Len(s) - 1)) ELSE s

Strip(s) == RStrip(LStrip(s))

\* s[:-n]
DropLast(s, n) == SubSeq(s, 1, Len(s) - n)

\* int(s) of a decimal string accepts only a non-empty run of digits here
IsInt(s) == s # <<>> /\ \A i \in 1..Len(s) : IsDigit(s[i])

RECURSIVE IntOf(_)
IntOf(s) ==
    IF Len(s) = 1 THEN DigitVal(s[1])
    ELSE 10 * IntOf(SubSeq(s, 1, Len(s) - 1)) + DigitVal(s[Len(s)])

\* pathlib's Path.stem of a file name: the name without its last suffix
Stem(name) ==
    IF \A i \in 2..Len(name) : name[i] # "." THEN name
    ELSE LET k == CHOOSE i \in 2..Len(name) :
                      name[i] = "." /\ \A j \in (i + 1)..Len(name) : name[j] # "."
         IN  SubSeq(name, 1, k - 1)

\* whether a file name ends with the suffix (glob '*' + suffix)
EndsWith(name, suffix) ==
    /\ Len(name) >= Len(suffix)
    /\ SubSeq(name, Len(name) - Len(suffix) + 1, Len(name)) = suffix

\* sorted(...) of a collection of distinct strings
RECURSIVE Sorted(_)
Sorted(S) ==
    IF S = {} THEN <<>>
    ELSE LET m == CHOOSE x \in S : \A y \in S \ {x} : StrLess(x, y)
         IN  <<m>> \o Sorted(S \ {m})

\* the sequences that enumerate a finite set once each, in any order
Perms(S) ==
    {p \in [1..Cardinality(S) -> S] : \A i, j \in 1..Cardinality(S) : p[i] = p[j] => i = j}

(***************************************************************************)
(* The corpus on disk.  One corpus directory <root>/<language_name>/ with  *)
(* the split "train"; the split name "valid" names no directory.           *)
(***************************************************************************)
\* decimal rendering of a natural number (the names the corpus gives its files)
RECURSIVE Dec(_)
Dec(n) == IF n < 10 THEN <<Digits[n + 1]>> ELSE Dec(n \div 10) \o <<Digits[(n % 10) + 1]>>

\* "<speaker_id>_<chapter_id>_<utterance_id>"
Id(s, c, u) == Dec(s) \o <<"_">> \o Dec(c) \o <<"_">> \o Dec(u)

\* the sample identifiers of the modelled corpus: two utterances of chapter 1/1
\* (ordered differently as strings and as numbers) and one of chapter 1/2
IdUniverse == {Id(1, 1, 2), Id(1, 1, 10), Id(1, 2, 0)}

\* an identifier that does not parse into three parts
MalformedId == <<"1", "_", "1">>

\* the chapter directory audio/<speaker_id>/<chapter_id>/ an identifier belongs to
ChapterOf(id) == <<Split(id, "_")[1], Split(id, "_")[2]>>

ChapterDirs == {ChapterOf(id) : id \in IdUniverse}

\* the utterance text the corpus gives each identifier
TextOf(id) ==
    IF id = Id(1, 1, 10) THEN <<"B">>
    ELSE IF id = Id(1, 2, 0) THEN <<"a", SP, "b">>
    ELSE <<"a">>

SplitsOnDisk == {"train"}
SplitNames == {"train", "valid"}

\* class attributes _ext_audio, _ext_pytorch and the default of _ext_txt
ExtAudio == <<".", "o", "p", "u", "s">>
ExtPytorch == <<".", "p", "t">>
ExtTxt == <<".", "t", "r", "a", "n", "s", ".", "t", "x", "t">>
DotTxt == <<".", "t", "x", "t">>

\* a file that may be absent: <<>> when absent, <<content>> when present
Absent == <<>>
File(content) == <<content>>
Exists(f) == f # Absent
Content(f) == f[1]

\* Python values of the parameter one_hr: False, True and the integers 0..5
PyFalse == [type |-> "bool", val |-> 0]
PyTrue == [type |-> "bool", val |-> 1]
PyInt(k) == [type |-> "int", val |-> k]
OneHrValues == {PyFalse, PyTrue} \cup {PyInt(k) : k \in 0..5}

\* bool(v)
Truthy(v) == v.val # 0

\* str(v)
PyStr(v) ==
    IF v.type = "bool"
    THEN (IF v.val = 1 THEN <<"T", "r", "u", "e">> ELSE <<"F", "a", "l", "s", "e">>)
    ELSE Dec(v.val)

\* limited_supervision/9hr and limited_supervision/1hr/<k>, k in 0..5
NineHrDir == <<"9hr">>
OneHrDir(name) == <<"1hr", name>>
HandleDirs == {NineHrDir} \cup {OneHrDir(Dec(k)) : k \in 0..5}

VARIABLES
    audio,      \* the identifiers whose audio/<s>/<c>/<id>.opus exists
    bulk,       \* content of <split>/transcripts.txt
    trans,      \* chapter directory -> <s>_<c>.trans.txt (may be absent)
    ipa,        \* chapter directory -> <s>_<c>.ipa_trans.txt (may be absent)
    cache,      \* identifier -> the record saved at audio/<s>/<c>/<id>.pt (may be absent)
    handles,    \* limited_supervision directory -> content of its handles.txt
    obj,        \* the dataset object: <<>> or <<[_walker, use_cache, refresh]>>
    pool,       \* the worker pool of a running extract_labels, <<>> when none runs
    lastOp      \* the last finished call: its name, inputs, exception and return value

fsvars == <<audio, bulk, trans, ipa, cache, handles>>
vars == <<audio, bulk, trans, ipa, cache, handles, obj, pool, lastOp>>

NoError == "none"

(***************************************************************************)
(* Corpus Index: __init__ (download=False), __len__.                       *)
(***************************************************************************)
\* names of the per-chapter files the splitter writes
TransName(ch) == ch[1] \o <<"_">> \o ch[2] \o ExtTxt
IpaName(ch) == ch[1] \o <<"_">> \o ch[2] \o <<".", "i", "p", "a", "_">> \o SubSeq(ExtTxt, 2, Len(ExtTxt))

\* the names of all files in the chapter directories audio/*/*/, given the
\* per-chapter transcript files
ListingOf(tr, ip) ==
    {id \o ExtAudio : id \in audio}
    \cup {id \o ExtPytorch : id \in {x \in IdUniverse : Exists(cache[x])}}
    \cup {TransName(ch) : ch \in {x \in ChapterDirs : Exists(tr[x])}}
    \cup {IpaName(ch) : ch \in {x \in ChapterDirs : Exists(ip[x])}}

DirListing == ListingOf(trans, ipa)

\* glob('audio/*/*/*' + suffix) over a listing: the matching names, in
\* whatever order the directory listing gives them
Glob(listing, suffix) == Perms({n \in listing : EndsWith(n, suffix)})

\* the stems in the order of the directory listing, not sorted
FullWalkerUnsorted(paths) == [i \in 1..Len(paths) |-> Stem(paths[i])]

\* line 134: sorted(str(p.stem) for p in ...glob(...))
FullWalker(paths) == Sorted({Stem(paths[i]) : i \in 1..Len(paths)})

\* lines 118-125: which handles.txt the low-resource mode reads
HandlesDirOf(one_hr) ==
    IF one_hr.val = 0 /\ one_hr.type = "bool" THEN NineHrDir
    ELSE OneHrDir(PyStr(one_hr))

HandlesAt(dir) == IF dir \in DOMAIN handles THEN handles[dir] ELSE Absent

\* lines 120-125: f.read().splitlines()
LowResourceWalker(content) == SplitLines(content)

\* the fold selector tested with "is not False" instead of its truth value
RejectsOneHrNotFalse(one_hr) == one_hr # PyFalse

\* line 128: the fold selector is rejected when low_resource is false
RejectsOneHr(one_hr) == Truthy(one_hr)

\* __init__ with download=False: the outcomes the call can have, each the
\* exception raised and the object built; the glob of line 134 may list the
\* audio files in any order
InitResults(split, low_resource, one_hr, refresh, use_cache) ==
    IF split \notin SplitsOnDisk
    THEN {[err |-> "FileNotFoundError", obj |-> <<>>]}
    ELSE IF low_resource
    THEN IF ~Exists(HandlesAt(HandlesDirOf(one_hr)))
         THEN {[err |-> "FileNotFoundError", obj |-> <<>>]}
         ELSE {[err |-> NoError,
                obj |-> <<[walker |-> LowResourceWalker(Content(HandlesAt(HandlesDirOf(one_hr)))),
                           use_cache |-> use_cache, refresh |-> refresh]>>]}
    ELSE IF RejectsOneHr(one_hr)
    THEN {[err |-> "ValueError", obj |-> <<>>]}
    ELSE {[err |-> NoError,
           obj |-> <<[walker |-> FullWalker(paths),
                      use_cache |-> use_cache, refresh |-> refresh]>>] :
            paths \in Glob(DirListing, ExtAudio)}

Construct ==
    /\ pool = <<>>
    /\ \E split \in SplitNames, low_resource \in BOOLEAN, one_hr \in OneHrValues,
          refresh \in BOOLEAN, use_cache \in BOOLEAN :
          \E r \in InitResults(split, low_resource, one_hr, refresh, use_cache) :
              /\ obj' = r.obj
              /\ lastOp' = [op |-> "__init__", err |-> r.err, split |-> split,
                            low_resource |-> low_resource, one_hr |-> one_hr]
    /\ UNCHANGED <<fsvars, pool>>

\* __len__
Length ==
    /\ pool = <<>>
    /\ obj # <<>>
    /\ lastOp' = [op |-> "__len__", err |-> NoError, ret |-> Len(obj[1].walker)]
    /\ UNCHANGED <<fsvars, obj, pool>>

(***************************************************************************)
(* Sample assembly: load_librispeech_item, __getitem__.                    *)
(***************************************************************************)
\* torchaudio.load(file_audio): the waveform and sample rate the codec decodes
\* from that file (opaque values that depend on the file only)
Waveform(file_audio) == <<"waveform of">> \o file_audio
SampleRate(file_audio) == <<"sample rate of">> \o file_audio

\* lines 280-289: scan the lines of the chapter transcript for fileid.
\* The raise of line 289 names the undefined variable fileid_audio, so
\* evaluating its argument raises NameError.
RECURSIVE ScanTranscript(_, _)
ScanTranscript(lines, fileid) ==
    IF lines = <<>> THEN [err |-> "NameError", utterance |-> <<>>]
    ELSE LET parts == Split1(Strip(Head(lines)), TAB)
         IN  IF Len(parts) # 2 THEN [err |-> "ValueError", utterance |-> <<>>]
             ELSE IF fileid = parts[1] THEN [err |-> NoError, utterance |-> parts[2]]
             ELSE ScanTranscript(Tail(lines), fileid)

\* line 264: whether the call returns the persisted record instead of assembling
UsesCache(o) == o.use_cache /\ ~o.refresh

\* line 300: whether the assembled record is persisted
SavesCache(o) == o.use_cache

\* lines 257-302.  Result: the exception, the returned record (<<>> when none),
\* the cache afterwards and whether torchaudio.load was called.  Paths are
\* given relative to the chapter directory.
LoadItem(o, fileid) ==
    LET parts == Split(fileid, "_")
        fail(e, dec) == [err |-> e, ret |-> <<>>, cache |-> cache, decoded |-> dec]
    IN
    IF Len(parts) # 3 THEN fail("ValueError", FALSE)
    ELSE
    LET speaker_id == parts[1]
        chapter_id == parts[2]
        utterance_id == parts[3]
        ch == <<speaker_id, chapter_id>>
        file_audio == fileid \o ExtAudio
    IN
    IF UsesCache(o)
    THEN IF fileid \in DOMAIN cache /\ Exists(cache[fileid])
         THEN [err |-> NoError, ret |-> cache[fileid], cache |-> cache, decoded |-> FALSE]
         ELSE fail("FileNotFoundError", FALSE)
    ELSE IF fileid \notin audio THEN fail("AudioLoadError", TRUE)
    ELSE IF ~(ch \in ChapterDirs /\ Exists(trans[ch])) THEN fail("FileNotFoundError", TRUE)
    ELSE
    LET scan == ScanTranscript(ReadLines(Content(trans[ch])), fileid) IN
    IF scan.err # NoError THEN fail(scan.err, TRUE)
    ELSE IF ~(IsInt(speaker_id) /\ IsInt(chapter_id) /\ IsInt(utterance_id))
    THEN fail("ValueError", TRUE)
    ELSE
    LET batch == [path |-> file_audio,
                  waveform |-> Waveform(file_audio),
                  sample_rate |-> SampleRate(file_audio),
                  utterance |-> scan.utterance,
                  speaker_id |-> IntOf(speaker_id),
                  chapter_id |-> IntOf(chapter_id),
                  utterance_id |-> IntOf(utterance_id)]
    IN  [err |-> NoError, ret |-> <<batch>>,
         cache |-> IF SavesCache(o) THEN [cache EXCEPT ![fileid] = <<batch>>] ELSE cache,
         decoded |-> TRUE]

\* an index that wraps around instead of raising IndexError
ListIndexWrap(walker, n) ==
    IF walker = <<>> THEN <<>> ELSE <<walker[(n % Len(walker)) + 1]>>

\* self._walker[n] of a Python list: <<>> when it raises IndexError
ListIndex(walker, n) ==
    IF 0 <= n /\ n < Len(walker) THEN <<walker[n + 1]>>
    ELSE IF -Len(walker) <= n /\ n < 0 THEN <<walker[Len(walker) + n + 1]>>
    ELSE <<>>

\* load_librispeech_item called on the object
LoadLibrispeechItem ==
    /\ pool = <<>>
    /\ obj # <<>>
    /\ \E fileid \in IdUniverse \cup {MalformedId} :
          LET r == LoadItem(obj[1], fileid)
          IN  /\ cache' = r.cache
              /\ lastOp' = [op |-> "load_librispeech_item", fileid |-> fileid,
                            err |-> r.err, ret |-> r.ret, decoded |-> r.decoded]
    /\ UNCHANGED <<audio, bulk, trans, ipa, handles, obj, pool>>

\* __getitem__(n), lines 145-146
GetItem ==
    /\ pool = <<>>
    /\ obj # <<>>
    /\ \E n \in (-Len(obj[1].walker) - 2)..(Len(obj[1].walker) + 1) :
          LET fileid == ListIndex(obj[1].walker, n)
          IN  IF fileid = <<>>
              THEN /\ lastOp' = [op |-> "__getitem__", n |-> n, fileid |-> <<>>,
                                 err |-> "IndexError", ret |-> <<>>, decoded |-> FALSE]
                   /\ cache' = cache
              ELSE LET r == LoadItem(obj[1], fileid[1])
                   IN  /\ cache' = r.cache
                       /\ lastOp' = [op |-> "__getitem__", n |-> n, fileid |-> fileid,
                                     err |-> r.err, ret |-> r.ret, decoded |-> r.decoded]
    /\ UNCHANGED <<audio, bulk, trans, ipa, handles, obj, pool>>

(***************************************************************************)
(* Label Splitter: extract_labels, _write_labels and the worker pool.      *)
(***************************************************************************)
\* answers typed at the confirmation prompt
Yes == <<"y", "e", "s">>
No == <<"n", "o">>
Answers == {Yes, <<"Y", "E", "S">>, No, <<"N", "o">>, <<"x">>}

NoTxt == [ch \in ChapterDirs |-> Absent]

\* dict assignment labels[k] = v
Put(labels, k, v) == [x \in (DOMAIN labels) \cup {k} |-> IF x = k THEN v ELSE labels[x]]

\* lines 226-231: the bulk transcript as a dict; the text keeps its line terminator
RECURSIVE LoadLabels(_, _)
LoadLabels(lines, labels) ==
    IF lines = <<>> THEN [err |-> NoError, labels |-> labels]
    ELSE LET parts == Split(Head(lines), TAB)
         IN  IF Len(parts) # 2 THEN [err |-> "ValueError", labels |-> labels]
             ELSE LoadLabels(Tail(lines), Put(labels, parts[1], parts[2]))

\* phonemizer.phonemize(text, strip=True, ...): an opaque transcription of the text
Phonemize(text) == <<"ipa of">> \o Strip(text)

\* open(output_file, 'a') ... f.write(text)
AppendFile(f, text) == File(IF Exists(f) THEN Content(f) \o text ELSE text)

\* line 332: the line appended to <s>_<c>.trans.txt
TxtOutput(label_id, utterance) == label_id \o <<TAB>> \o utterance

\* lines 304-334, called with the positional arguments args after self:
\* (audio_file, labels, root, IPA).  Result: the exception and the files afterwards.
WriteLabels(tr, ip, args) ==
    IF Len(args) # 4 THEN [err |-> "TypeError", trans |-> tr, ipa |-> ip]
    ELSE
    LET audio_file == args[1]
        labels == args[2]
        IPA == args[4]
        label_id == DropLast(audio_file, 5)
        parts == Split(label_id, "_")
    IN
    IF Len(parts) # 3 THEN [err |-> "ValueError", trans |-> tr, ipa |-> ip]
    ELSE IF label_id \notin DOMAIN labels THEN [err |-> "KeyError", trans |-> tr, ipa |-> ip]
    ELSE
    LET ch == <<parts[1], parts[2]>>
        utterance == labels[label_id]
        ipa_output == label_id \o <<TAB>> \o Phonemize(Lower(utterance))
    IN  [err |-> NoError,
         trans |-> [tr EXCEPT ![ch] = AppendFile(tr[ch], TxtOutput(label_id, utterance))],
         ipa |-> IF IPA THEN [ip EXCEPT ![ch] = AppendFile(ip[ch], ipa_output \o <<NL>>)] ELSE ip]

\* lines 237-238: the sequential loop stops at the first exception
RECURSIVE RunSequential(_, _, _, _, _, _)
RunSequential(tr, ip, audio_list, labels, root, IPA) ==
    IF audio_list = <<>> THEN [err |-> NoError, trans |-> tr, ipa |-> ip]
    ELSE LET r == WriteLabels(tr, ip, <<Head(audio_list), labels, root, IPA>>)
         IN  IF r.err # NoError THEN r
             ELSE RunSequential(r.trans, r.ipa, Tail(audio_list), labels, root, IPA)

\* line 242: the arguments apply_async passes to _write_labels
PoolArgs(audio_file, labels, root, IPA) == <<audio_file, labels, root>>

\* line 212: the per-chapter .txt files found before anything else is done
HasLabels == \E labels \in Glob(DirListing, DotTxt) : Len(labels) > 0

\* the answer compared without str.lower()
DeclinedCaseSensitive(decision) == decision = No

\* lines 216-222: what the answer to the prompt leads to
Declined(decision) == Lower(decision) = No
Confirmed(decision) == Lower(decision) = Yes

\* the record of a call of extract_labels kept in lastOp
ExtractOp(split_name, num_threads, IPA, hadLabels, decision, err, done) ==
    [op |-> "extract_labels", split_name |-> split_name, num_threads |-> num_threads,
     IPA |-> IPA, hadLabels |-> hadLabels,
     decision |-> decision,
     err |-> err, done |-> done, before |-> [trans |-> trans, ipa |-> ipa]]

\* extract_labels(split_name, num_threads, IPA), lines 209-247: the whole call in
\* sequential mode, and up to pool.join() in parallel mode
ExtractLabels ==
    /\ pool = <<>>
    /\ obj # <<>>
    /\ \E split_name \in SplitNames, num_threads \in -1..MaxThreads, IPA \in BOOLEAN :
        LET hadLabels == split_name \in SplitsOnDisk /\ HasLabels IN
        \* input() is called only when labels were found
        \E decision \in IF hadLabels THEN Answers ELSE {<<>>} :
        LET finish(err, tr, ip) ==
                /\ trans' = tr
                /\ ipa' = ip
                /\ pool' = <<>>
                /\ lastOp' = ExtractOp(split_name, num_threads, IPA, hadLabels,
                                       decision, err, TRUE)
        IN
        IF hadLabels /\ Declined(decision) THEN finish(NoError, trans, ipa)
        ELSE IF hadLabels /\ ~Confirmed(decision) THEN finish("ValueError", trans, ipa)
        ELSE IF split_name \notin SplitsOnDisk THEN finish("FileNotFoundError", trans, ipa)
        ELSE
        LET loaded == LoadLabels(ReadLines(bulk), <<>>) IN
        IF loaded.err # NoError THEN finish(loaded.err, NoTxt, NoTxt)
        ELSE
        \E audio_list \in Glob(ListingOf(NoTxt, NoTxt), <<>>) :
            IF num_threads = 0
            THEN LET r == RunSequential(NoTxt, NoTxt, audio_list, loaded.labels,
                                        split_name, IPA)
                 IN  finish(r.err, r.trans, r.ipa)
            ELSE IF num_threads > 0
            THEN /\ trans' = NoTxt
                 /\ ipa' = NoTxt
                 /\ pool' = <<[queue |-> [i \in 1..Len(audio_list) |->
                                            PoolArgs(audio_list[i], loaded.labels,
                                                     split_name, IPA)],
                               busy |-> [w \in 1..num_threads |-> <<>>]]>>
                 /\ lastOp' = ExtractOp(split_name, num_threads, IPA, hadLabels,
                                        decision, NoError, FALSE)
            ELSE finish("ValueError", NoTxt, NoTxt)
    /\ UNCHANGED <<audio, bulk, cache, handles, obj>>

\* an idle worker of the pool takes the next queued task
WorkerTake ==
    /\ pool # <<>>
    /\ pool[1].queue # <<>>
    /\ \E w \in DOMAIN pool[1].busy :
          /\ pool[1].busy[w] = <<>>
          /\ pool' = <<[queue |-> Tail(pool[1].queue),
                        busy |-> [pool[1].busy EXCEPT ![w] = <<Head(pool[1].queue)>>]]>>
    /\ UNCHANGED <<fsvars, obj, lastOp>>

\* a worker runs its task; the exception it raises stays in the AsyncResult,
\* which nobody reads (line 243 is commented out)
WorkerRun ==
    /\ pool # <<>>
    /\ \E w \in DOMAIN pool[1].busy :
          /\ pool[1].busy[w] # <<>>
          /\ LET r == WriteLabels(trans, ipa, pool[1].busy[w][1])
             IN  /\ trans' = r.trans
                 /\ ipa' = r.ipa
          /\ pool' = <<[pool[1] EXCEPT !.busy[w] = <<>>]>>
    /\ UNCHANGED <<audio, bulk, cache, handles, obj, lastOp>>

\* pool.close(); pool.join() return once every task has run
PoolJoin ==
    /\ pool # <<>>
    /\ pool[1].queue = <<>>
    /\ \A w \in DOMAIN pool[1].busy : pool[1].busy[w] = <<>>
    /\ pool' = <<>>
    /\ lastOp' = [lastOp EXCEPT !.done = TRUE]
    /\ UNCHANGED <<fsvars, obj>>

(***************************************************************************)
(* Initial states: the corpus as found on disk.                            *)
(***************************************************************************)
\* the sequences of at most n distinct elements of S
InjSeqs(S, n) == UNION {Perms(T) : T \in {X \in SUBSET S : Cardinality(X) <= n}}

RECURSIVE Concat(_)
Concat(ss) == IF ss = <<>> THEN <<>> ELSE Head(ss) \o Concat(Tail(ss))

\* a transcript file with one line "identifier<TAB>text" per identifier; the
\* last line ends with a line terminator only when terminated
TranscriptOf(ids, terminated) ==
    LET all == Concat([i \in 1..Len(ids) |-> ids[i] \o <<TAB>> \o TextOf(ids[i]) \o <<NL>>])
    IN  IF terminated \/ all = <<>> THEN all ELSE DropLast(all, 1)

BulkFiles == {TranscriptOf(ids, t) : ids \in InjSeqs(IdUniverse, MaxBulk), t \in BOOLEAN}

\* a handles.txt: one identifier per line
HandlesOf(ids) == Concat([i \in 1..Len(ids) |-> ids[i] \o <<NL>>])

\* the sequence rotated left by k places
Rotate(ids, k) ==
    [i \in 1..Len(ids) |-> ids[((i - 1 + k) % Len(ids)) + 1]]

\* the 9hr set lists ids; fold k of the 1hr sets lists them rotated by k + 1
HandlesFiles(ids) ==
    [d \in HandleDirs |->
        IF d = NineHrDir THEN File(HandlesOf(ids))
        ELSE File(HandlesOf(Rotate(ids, IntOf(d[2]) + 1)))]

\* the chapter transcripts holding a line for each identifier of lined, for
\* the chapters that hold audio
ChapterFiles(lined) ==
    [ch \in ChapterDirs |->
        IF \A id \in audio : ChapterOf(id) # ch THEN Absent
        ELSE File(TranscriptOf(Sorted({id \in lined : ChapterOf(id) = ch}), TRUE))]

NoCache == [id \in IdUniverse |-> Absent]

\* the object built by MultilingualLibriSpeech(root) with the default arguments
DefaultObject ==
    (CHOOSE r \in InitResults("train", FALSE, PyInt(0), FALSE, FALSE) : TRUE).obj

\* a freshly extracted corpus: bulk transcript, audio, no per-chapter files yet
InitSplit ==
    /\ audio \in SUBSET IdUniverse
    /\ bulk \in BulkFiles
    /\ trans = NoTxt
    /\ ipa = NoTxt
    /\ cache = NoCache
    /\ handles = HandlesFiles(<<>>)
    /\ obj = DefaultObject
    /\ pool = <<>>
    /\ lastOp = [op |-> "none", err |-> NoError]

\* a corpus whose labels were split, with limited-supervision lists that name
\* audio files of the split
InitIndex ==
    /\ audio \in SUBSET IdUniverse
    /\ bulk = TranscriptOf(Sorted(audio), TRUE)
    /\ trans = ChapterFiles(audio)
    /\ ipa = NoTxt
    /\ cache = NoCache
    /\ \E ids \in InjSeqs(audio, MaxHandles) : handles = HandlesFiles(ids)
    /\ obj = <<>>
    /\ pool = <<>>
    /\ lastOp = [op |-> "none", err |-> NoError]

\* a corpus whose chapter transcripts lack the lines of some audio files
InitAssemble ==
    /\ audio \in SUBSET IdUniverse
    /\ bulk = TranscriptOf(Sorted(audio), TRUE)
    /\ \E lined \in SUBSET audio : trans = ChapterFiles(lined)
    /\ ipa = NoTxt
    /\ cache = NoCache
    /\ handles = HandlesFiles(<<>>)
    /\ obj = <<>>
    /\ pool = <<>>
    /\ lastOp = [op |-> "none", err |-> NoError]

NextSplit == ExtractLabels \/ WorkerTake \/ WorkerRun \/ PoolJoin
NextIndex == Construct \/ Length \/ GetItem
NextAssemble == Construct \/ LoadLibrispeechItem \/ GetItem

SpecSplit == InitSplit /\ [][NextSplit]_vars
SpecIndex == InitIndex /\ [][NextIndex]_vars
SpecAssemble == InitAssemble /\ [][NextAssemble]_vars

(***************************************************************************)
(* Properties.  The error kinds of the specification are the exceptions    *)
(* of the code: ConfigurationError and InputValidationError are            *)
(* ValueError, BoundsError is IndexError, NotFoundError and                *)
(* TranscriptNotFoundError are FileNotFoundError.                          *)
(***************************************************************************)
Range(seq) == {seq[i] : i \in 1..Len(seq)}

Count(seq, x) == Cardinality({i \in 1..Len(seq) : seq[i] = x})

\* the two sequences hold the same elements the same number of times
SameBag(s, t) ==
    /\ Len(s) = Len(t)
    /\ \A x \in Range(s) \cup Range(t) : Count(s, x) = Count(t, x)

\* the lines of a file that may be absent
LinesOf(f) == IF Exists(f) THEN SplitLines(Content(f)) ELSE <<>>

\* the identifiers the bulk transcript has an entry for, and their text
BulkIds == {Split1(l, TAB)[1] : l \in Range(SplitLines(bulk))}
BulkText(id) ==
    Split1(CHOOSE l \in Range(SplitLines(bulk)) : Split1(l, TAB)[1] = id, TAB)[2]

AudioIn(ch) == {id \in audio : ChapterOf(id) = ch}

\* a finished call of extract_labels that got past the overwrite prompt
SplitRan ==
    /\ lastOp.op = "extract_labels"
    /\ lastOp.done
    /\ lastOp.split_name \in SplitsOnDisk
    /\ (lastOp.hadLabels => Lower(lastOp.decision) = Yes)

\* C1 (as claimed): after a sequential extract_labels on a split without
\* per-chapter files whose audio files all have a bulk entry, every chapter's
\* transcript holds exactly one line per audio file of the chapter, each the
\* identifier, a tab and the bulk text -- whether or not the bulk file's last
\* line is terminated.
C1_SplitterCompleteness ==
    (/\ SplitRan
     /\ lastOp.num_threads = 0
     /\ ~lastOp.hadLabels
     /\ audio \subseteq BulkIds)
    => /\ lastOp.err = NoError
       /\ \A ch \in ChapterDirs :
            /\ Len(LinesOf(trans[ch])) = Cardinality(AudioIn(ch))
            /\ Range(LinesOf(trans[ch])) =
                   {id \o <<TAB>> \o BulkText(id) : id \in AudioIn(ch)}

\* C2 (as claimed): once a parallel extract_labels returns, each chapter
\* transcript holds the same multiset of lines as a sequential run on the same
\* bulk transcript and audio tree produces (for some enumeration order).
C2_ParallelSameAsSequential ==
    (/\ SplitRan
     /\ lastOp.num_threads > 0)
    => \E audio_list \in Glob(ListingOf(NoTxt, NoTxt), <<>>) :
          LET r == RunSequential(NoTxt, NoTxt, audio_list,
                                 LoadLabels(ReadLines(bulk), <<>>).labels,
                                 lastOp.split_name, lastOp.IPA)
          IN  \A ch \in ChapterDirs :
                 /\ Exists(trans[ch]) = Exists(r.trans[ch])
                 /\ SameBag(LinesOf(trans[ch]), LinesOf(r.trans[ch]))

\* C7: when per-chapter .txt files exist and the answer is not 'yes' (in any
\* case), extract_labels deletes nothing, appends nothing and starts no worker,
\* for every thread count and IPA flag; 'no' returns cleanly, any other answer
\* fails with ValueError.
C7_IdempotencyGuard ==
    (/\ lastOp.op = "extract_labels"
     /\ lastOp.hadLabels
     /\ Lower(lastOp.decision) # <<"y", "e", "s">>)
    => /\ lastOp.done
       /\ pool = <<>>
       /\ trans = lastOp.before.trans
       /\ ipa = lastOp.before.ipa
       /\ (Lower(lastOp.decision) = <<"n", "o">> => lastOp.err = NoError)
       /\ (Lower(lastOp.decision) # <<"n", "o">> => lastOp.err = "ValueError")

\* C7 witness: a parallel IPA run was refused by an answer of "No" and the
\* files written before are kept
C7_Witness ==
    /\ lastOp.op = "extract_labels"
    /\ lastOp.hadLabels
    /\ lastOp.decision = <<"N", "o">>
    /\ lastOp.num_threads > 0
    /\ lastOp.IPA
    /\ \E ch \in ChapterDirs : Exists(trans[ch]) /\ Exists(ipa[ch])

\* C9 (as claimed): when some audio file has no bulk entry, extract_labels
\* still completes and writes the line of every audio file that has one.
C9_MissingEntryNotASplitFailure ==
    (/\ SplitRan
     /\ lastOp.num_threads >= 0
     /\ ~(audio \subseteq BulkIds))
    => /\ lastOp.err = NoError
       /\ \A id \in audio \cap BulkIds :
             id \o <<TAB>> \o BulkText(id) \in Range(LinesOf(trans[ChapterOf(id)]))

\* C10 (as claimed): extract_labels with a negative thread count fails with
\* ValueError and leaves every per-chapter file as it was, whatever the answer
\* to the overwrite prompt (read generously: an answer of 'no' may return
\* cleanly instead of failing).
C10_NegativeThreadsNoSideEffect ==
    (/\ lastOp.op = "extract_labels"
     /\ lastOp.split_name \in SplitsOnDisk
     /\ lastOp.num_threads < 0)
    => /\ lastOp.err = "ValueError"
          \/ (lastOp.hadLabels /\ Lower(lastOp.decision) = <<"n", "o">>)
       /\ trans = lastOp.before.trans
       /\ ipa = lastOp.before.ipa

\* the assembly of lastOp ran on an object that assembles (no cache lookup)
Assembled ==
    /\ lastOp.op \in {"load_librispeech_item", "__getitem__"}
    /\ lastOp.err # "IndexError"
    /\ ~(obj[1].use_cache /\ ~obj[1].refresh)

\* the identifier lastOp asked for
Asked == IF lastOp.op = "__getitem__" THEN lastOp.fileid[1] ELSE lastOp.fileid

\* the chapter transcript of the identifier exists and has a line for it
HasTranscriptLine(id) ==
    /\ Exists(trans[ChapterOf(id)])
    /\ \E l \in Range(LinesOf(trans[ChapterOf(id)])) : Split1(l, TAB)[1] = id

\* C3 (as claimed): with caching enabled and refresh disabled, assembling an
\* identifier whose audio file and transcript line exist succeeds from any
\* cache state, persists the record under the identifier, and asking again
\* returns an equal record without decoding the audio.
C3_RoundTripCaching ==
    (/\ lastOp.op \in {"load_librispeech_item", "__getitem__"}
     /\ lastOp.err # "IndexError"
     /\ obj[1].use_cache /\ ~obj[1].refresh
     /\ Asked \in audio
     /\ HasTranscriptLine(Asked))
    => /\ lastOp.err = NoError
       /\ lastOp.ret # <<>>
       /\ cache[Asked] = lastOp.ret
       /\ LoadItem(obj[1], Asked).ret = lastOp.ret
       /\ ~LoadItem(obj[1], Asked).decoded

\* C6 (as claimed): assembling an identifier whose audio file exists and whose
\* chapter transcript exists but has no line for it (an empty file included)
\* fails with FileNotFoundError, returns no record and persists nothing.
C6_LookupFailure ==
    (/\ Assembled
     /\ Asked \in audio
     /\ Exists(trans[ChapterOf(Asked)])
     /\ ~HasTranscriptLine(Asked))
    => /\ lastOp.err = "FileNotFoundError"
       /\ lastOp.ret = <<>>
       /\ cache[Asked] = Absent

\* C4 (as claimed): get(n) fails with IndexError and returns no record for
\* every n outside 0 <= n < count(), every negative n included.
C4_BoundsOriginal ==
    lastOp.op = "__getitem__"
    => (~(0 <= lastOp.n /\ lastOp.n < Len(obj[1].walker))
        => lastOp.err = "IndexError" /\ lastOp.ret = <<>>)

\* the record, when one is returned, is the one of the identifier
ResolvesTo(id) ==
    /\ lastOp.err # "IndexError"
    /\ lastOp.fileid = <<id>>
    /\ lastOp.ret # <<>> => lastOp.ret[1].path = id \o <<".", "o", "p", "u", "s">>

\* C4 (amended): get(n) fails with IndexError and returns no record exactly
\* when n >= count() or n < -count(); for 0 <= n < count() it resolves the n-th
\* identifier, and for -count() <= n < 0 the identifier at position count() + n.
C4_Bounds ==
    lastOp.op = "__getitem__"
    => LET count == Len(obj[1].walker)
           n == lastOp.n
       IN  /\ (n >= count \/ n < -count) => lastOp.err = "IndexError" /\ lastOp.ret = <<>>
           /\ (0 <= n /\ n < count) => ResolvesTo(obj[1].walker[n + 1])
           /\ (-count <= n /\ n < 0) => ResolvesTo(obj[1].walker[count + n + 1])

\* C4 witness: get(-1) returned the record of the last identifier
C4_Witness ==
    /\ lastOp.op = "__getitem__"
    /\ lastOp.n = -1
    /\ Len(obj[1].walker) >= 2
    /\ lastOp.err = NoError
    /\ lastOp.ret # <<>>
    /\ lastOp.fileid = <<obj[1].walker[Len(obj[1].walker)]>>

\* a construction on the existing split directory in full mode
FullModeInit ==
    /\ lastOp.op = "__init__"
    /\ lastOp.split \in SplitsOnDisk
    /\ ~lastOp.low_resource

\* C5 (as claimed): with low_resource false, every fold selector other than
\* False, the integers 0..5 included, fails with ValueError and builds nothing.
C5_ContradictoryOriginal ==
    (FullModeInit /\ lastOp.one_hr # [type |-> "bool", val |-> 0])
    => lastOp.err = "ValueError" /\ obj = <<>>

\* C5 (amended): with low_resource false, a fold selector that is True or one
\* of 1..5 fails with ValueError and builds nothing; the selector 0 (the
\* default) is accepted like False and the full index is built.
C5_Contradictory ==
    FullModeInit
    => /\ lastOp.one_hr.val # 0 => lastOp.err = "ValueError" /\ obj = <<>>
       /\ lastOp.one_hr.val = 0 => lastOp.err = NoError /\ obj # <<>>

\* C5 witness: fold 3 was rejected in full mode
C5_Witness ==
    /\ FullModeInit
    /\ lastOp.one_hr = [type |-> "int", val |-> 3]
    /\ lastOp.err = "ValueError"
    /\ obj = <<>>

\* C8: a full-mode index lists exactly the extension-stripped names of the
\* audio files, in ascending string order (so every construction on the same
\* directory gives the same sequence); a low-resource index lists the lines of
\* the selected handles.txt in file order; count() is the length of the list.
C8_IndexDeterminism ==
    /\ (lastOp.op = "__init__" /\ lastOp.err = NoError /\ ~lastOp.low_resource)
       => LET w == obj[1].walker
          IN  /\ Len(w) = Cardinality(audio)
              /\ Range(w) = audio
              /\ \A i, j \in 1..Len(w) : i < j => StrLess(w[i], w[j])
    /\ (lastOp.op = "__init__" /\ lastOp.err = NoError /\ lastOp.low_resource)
       => LET w == obj[1].walker
              dir == IF lastOp.one_hr = [type |-> "bool", val |-> 0] THEN <<"9hr">>
                     ELSE <<"1hr", Dec(lastOp.one_hr.val)>>
          IN  Concat([i \in 1..Len(w) |-> w[i] \o <<NL>>]) = Content(handles[dir])
    /\ lastOp.op = "__len__" => lastOp.ret = Len(obj[1].walker)

\* C8 witness: a full-mode index over three audio files, "1_1_10" listed
\* before "1_1_2"
C8_Witness ==
    /\ lastOp.op = "__init__"
    /\ lastOp.err = NoError
    /\ ~lastOp.low_resource
    /\ Len(obj[1].walker) = 3
    /\ obj[1].walker[1] = Id(1, 1, 10)
    /\ obj[1].walker[2] = Id(1, 1, 2)
====
